---- MODULE Spec2Model ----
(***************************************************************************)
(* A model of the ternary search trie of src/src/trie.rs and of its cell   *)
(* src/src/trie_node.rs.  The trie is the ownership tree the source        *)
(* builds: an Option<Box<TrieNode>> is the empty sequence (None) or a      *)
(* one-element sequence holding the cell's record (Some), so that a child  *)
(* is owned by exactly one parent, as a Box is.                            *)
(***************************************************************************)
EXTENDS Integers, Sequences, FiniteSets, TLC

\* Most keys a trie holds: insert calls that would succeed stop there.
MaxKeys == 2
\* Cap on the sum of the uses counters: search calls that count stop there.
MaxUses == 1

\* The byte values (u8) the token strings are made of.
Bytes == 0..2
\* The lengths of the token strings handed to the trie.
TokenLens == 0..2
\* The dictionary values (TrieValueType), opaque to the trie.  The caller
\* hands the n-th key it inserts the value n, as the tests of the source do
\* (vec![1u8], vec![2u8], ...); a rejected insert carries any value.
Values == 1..MaxKeys

\* Token strings: the arguments of search and longest_match (empty included).
Tokens == UNION {[1..n -> Bytes] : n \in TokenLens}
\* The token strings insert accepts.
Keys == Tokens \ {<<>>}

VARIABLES root, size, inserted

vars == <<root, size, inserted>>

\* Option::None and Option::Some
None == <<>>
Some(x) == <<x>>

\* The panics of insert; NoPanic is a normal return.
NoPanic == "returned"
AssertPanic == "assertion failed: !tokens.is_empty()"
NeverPanic == "Should never happen"
DuplicatePanic == "There is already a value at node"

\* TrieNode::new
NewNode(key, value) ==
    [left |-> None, middle |-> None, right |-> None,
     value |-> value, key |-> key, uses |-> 0]

\* allocate_if! without its Some(_) arm: a cell is made every time, and the
\* subtree the pointer owned is dropped
allocate_always(ptr, key) ==
    Some(NewNode(key, None))

\* allocate_if!: the pointer after the macro
allocate_if(ptr, key) ==
    IF ptr # None THEN ptr ELSE Some(NewNode(key, None))

\* recursive_insert without the check of inner.value: the value of a key that
\* is already there is overwritten
RECURSIVE recursive_insert_overwrite(_, _, _, _)
recursive_insert_overwrite(node, tokens, offset, value) ==
    LET key == tokens[offset + 1] IN
    IF node = None THEN [node |-> node, panic |-> NeverPanic]
    ELSE
      LET inner == node[1] IN
      IF key < inner.key THEN
        LET r == recursive_insert_overwrite(allocate_if(inner.left, key), tokens, offset, value)
        IN  [node |-> Some([inner EXCEPT !.left = r.node]), panic |-> r.panic]
      ELSE IF key > inner.key THEN
        LET r == recursive_insert_overwrite(allocate_if(inner.right, key), tokens, offset, value)
        IN  [node |-> Some([inner EXCEPT !.right = r.node]), panic |-> r.panic]
      ELSE IF offset + 1 = Len(tokens) THEN
        [node |-> Some([inner EXCEPT !.value = Some(value)]), panic |-> NoPanic]
      ELSE
        LET r == recursive_insert_overwrite(allocate_if(inner.middle, key), tokens, offset + 1, value)
        IN  [node |-> Some([inner EXCEPT !.middle = r.node]), panic |-> r.panic]

\* Trie::recursive_insert: the cell after the call, and the panic it ended in
RECURSIVE recursive_insert(_, _, _, _)
recursive_insert(node, tokens, offset, value) ==
    LET key == tokens[offset + 1] IN
    IF node = None THEN [node |-> node, panic |-> NeverPanic]
    ELSE
      LET inner == node[1] IN
      IF key < inner.key THEN
        LET r == recursive_insert(allocate_if(inner.left, key), tokens, offset, value)
        IN  [node |-> Some([inner EXCEPT !.left = r.node]), panic |-> r.panic]
      ELSE IF key > inner.key THEN
        LET r == recursive_insert(allocate_if(inner.right, key), tokens, offset, value)
        IN  [node |-> Some([inner EXCEPT !.right = r.node]), panic |-> r.panic]
      ELSE IF offset + 1 = Len(tokens) THEN
        IF inner.value # None
          THEN [node |-> node, panic |-> DuplicatePanic]
          ELSE [node |-> Some([inner EXCEPT !.value = Some(value)]), panic |-> NoPanic]
      ELSE
        LET r == recursive_insert(allocate_if(inner.middle, key), tokens, offset + 1, value)
        IN  [node |-> Some([inner EXCEPT !.middle = r.node]), panic |-> r.panic]

\* insert with self.size += 1 ahead of the call of recursive_insert: a panic
\* in recursive_insert leaves the size incremented
insert_counts_first(self, tokens, value) ==
    IF tokens = <<>> THEN [root |-> self.root, size |-> self.size, panic |-> AssertPanic]
    ELSE
      LET r == recursive_insert(allocate_if(self.root, tokens[1]), tokens, 0, value)
      IN  [root |-> r.node, size |-> self.size + 1, panic |-> r.panic]

\* insert with an early return in place of the assertion: an empty token
\* string is accepted and ignored
insert_ignores_empty(self, tokens, value) ==
    IF tokens = <<>> THEN [root |-> self.root, size |-> self.size, panic |-> NoPanic]
    ELSE
      LET r == recursive_insert(allocate_if(self.root, tokens[1]), tokens, 0, value) IN
      IF r.panic # NoPanic
        THEN [root |-> r.node, size |-> self.size, panic |-> r.panic]
        ELSE [root |-> r.node, size |-> self.size + 1, panic |-> NoPanic]

\* Trie::insert: the trie after the call (as a panic leaves it), and the panic
insert(self, tokens, value) ==
    IF tokens = <<>> THEN [root |-> self.root, size |-> self.size, panic |-> AssertPanic]
    ELSE
      LET r == recursive_insert(allocate_if(self.root, tokens[1]), tokens, 0, value) IN
      IF r.panic # NoPanic
        THEN [root |-> r.node, size |-> self.size, panic |-> r.panic]
        ELSE [root |-> r.node, size |-> self.size + 1, panic |-> NoPanic]

\* The loop of search returning at the first matched cell that has a value,
\* whether or not all of tokens is consumed
RECURSIVE search_loop_first_value(_, _, _)
search_loop_first_value(node, tokens, offset) ==
    IF ~(offset < Len(tokens)) THEN [node |-> node, ret |-> None]
    ELSE IF node = None THEN [node |-> node, ret |-> None]
    ELSE
      LET box_node == node[1]
          key == tokens[offset + 1]
      IN
      IF key < box_node.key THEN
        LET r == search_loop_first_value(box_node.left, tokens, offset)
        IN  [node |-> Some([box_node EXCEPT !.left = r.node]), ret |-> r.ret]
      ELSE IF key > box_node.key THEN
        LET r == search_loop_first_value(box_node.right, tokens, offset)
        IN  [node |-> Some([box_node EXCEPT !.right = r.node]), ret |-> r.ret]
      ELSE IF offset + 1 = Len(tokens) \/ box_node.value # None THEN
        [node |-> Some([box_node EXCEPT !.uses = @ + 1]), ret |-> box_node.value]
      ELSE
        LET r == search_loop_first_value(box_node.middle, tokens, offset + 1)
        IN  [node |-> Some([box_node EXCEPT !.middle = r.node]), ret |-> r.ret]

\* The loop of search with box_node.uses += 1 ahead of the test of the
\* offset: every matched cell on the way is counted
RECURSIVE search_loop_counts_path(_, _, _)
search_loop_counts_path(node, tokens, offset) ==
    IF ~(offset < Len(tokens)) THEN [node |-> node, ret |-> None]
    ELSE IF node = None THEN [node |-> node, ret |-> None]
    ELSE
      LET box_node == node[1]
          key == tokens[offset + 1]
      IN
      IF key < box_node.key THEN
        LET r == search_loop_counts_path(box_node.left, tokens, offset)
        IN  [node |-> Some([box_node EXCEPT !.left = r.node]), ret |-> r.ret]
      ELSE IF key > box_node.key THEN
        LET r == search_loop_counts_path(box_node.right, tokens, offset)
        IN  [node |-> Some([box_node EXCEPT !.right = r.node]), ret |-> r.ret]
      ELSE IF offset + 1 = Len(tokens) THEN
        [node |-> Some([box_node EXCEPT !.uses = @ + 1]), ret |-> box_node.value]
      ELSE
        LET r == search_loop_counts_path(box_node.middle, tokens, offset + 1)
        IN  [node |-> Some([box_node EXCEPT !.middle = r.node, !.uses = @ + 1]),
             ret |-> r.ret]

\* The while loop of Trie::search from the cell `node` at `offset`:
\* the cell after the loop and the value returned
RECURSIVE search_loop(_, _, _)
search_loop(node, tokens, offset) ==
    IF ~(offset < Len(tokens)) THEN [node |-> node, ret |-> None]
    ELSE IF node = None THEN [node |-> node, ret |-> None]
    ELSE
      LET box_node == node[1]
          key == tokens[offset + 1]
      IN
      IF key < box_node.key THEN
        LET r == search_loop(box_node.left, tokens, offset)
        IN  [node |-> Some([box_node EXCEPT !.left = r.node]), ret |-> r.ret]
      ELSE IF key > box_node.key THEN
        LET r == search_loop(box_node.right, tokens, offset)
        IN  [node |-> Some([box_node EXCEPT !.right = r.node]), ret |-> r.ret]
      ELSE IF offset + 1 = Len(tokens) THEN
        [node |-> Some([box_node EXCEPT !.uses = @ + 1]), ret |-> box_node.value]
      ELSE
        LET r == search_loop(box_node.middle, tokens, offset + 1)
        IN  [node |-> Some([box_node EXCEPT !.middle = r.node]), ret |-> r.ret]

\* Trie::search (&mut self): the root after the call and the value returned
search(self_root, tokens) ==
    LET r == search_loop(self_root, tokens, 0)
    IN  [root |-> r.node, ret |-> r.ret]

\* The two exits of Trie::longest_match: the counter of the local clone
\* longest_node is incremented, the clone is dropped, longest_match is returned
longest_match_exit(longest_match, longest_node) ==
    [ret |-> longest_match,
     longest_node |-> IF longest_node # None
                        THEN Some([longest_node[1] EXCEPT !.uses = @ + 1])
                        ELSE longest_node]

\* The loop of longest_match recording the offset before it is incremented
RECURSIVE longest_match_loop_early_offset(_, _, _, _, _)
longest_match_loop_early_offset(node, tokens, offset, longest_match, longest_node) ==
    IF ~(offset < Len(tokens)) THEN longest_match_exit(longest_match, longest_node)
    ELSE IF node = None THEN longest_match_exit(longest_match, longest_node)
    ELSE
      LET box_node == node[1]
          key == tokens[offset + 1]
      IN
      IF key < box_node.key THEN
        longest_match_loop_early_offset(box_node.left, tokens, offset,
                                        longest_match, longest_node)
      ELSE IF key > box_node.key THEN
        longest_match_loop_early_offset(box_node.right, tokens, offset,
                                        longest_match, longest_node)
      ELSE IF box_node.value # None THEN
        longest_match_loop_early_offset(box_node.middle, tokens, offset + 1,
                                        Some(<<box_node.value[1], offset>>), node)
      ELSE
        longest_match_loop_early_offset(box_node.middle, tokens, offset + 1,
                                        longest_match, longest_node)

\* The while loop of Trie::longest_match
RECURSIVE longest_match_loop(_, _, _, _, _)
longest_match_loop(node, tokens, offset, longest_match, longest_node) ==
    IF ~(offset < Len(tokens)) THEN longest_match_exit(longest_match, longest_node)
    ELSE IF node = None THEN longest_match_exit(longest_match, longest_node)
    ELSE
      LET box_node == node[1]
          key == tokens[offset + 1]
      IN
      IF key < box_node.key THEN
        longest_match_loop(box_node.left, tokens, offset, longest_match, longest_node)
      ELSE IF key > box_node.key THEN
        longest_match_loop(box_node.right, tokens, offset, longest_match, longest_node)
      ELSE IF box_node.value # None THEN
        longest_match_loop(box_node.middle, tokens, offset + 1,
                           Some(<<box_node.value[1], offset + 1>>), node)
      ELSE
        longest_match_loop(box_node.middle, tokens, offset + 1,
                           longest_match, longest_node)

\* Trie::longest_match (&self): the root after the call (the one before it:
\* the method borrows the trie immutably), the pair returned, and the local
\* clone the counter was incremented on
longest_match(self_root, tokens) ==
    LET r == longest_match_loop(self_root, tokens, 0, None, None)
    IN  [root |-> self_root, ret |-> r.ret, longest_node |-> r.longest_node]

\* Trie::len and Trie::is_empty
len(self) == self.size
is_empty(self) == self.size = 0

\* The trie the variables hold
Self == [root |-> root, size |-> size]

\* The sum of the uses counters of the cells under `node`
RECURSIVE TotalUses(_)
TotalUses(node) ==
    IF node = None THEN 0
    ELSE node[1].uses + TotalUses(node[1].left) + TotalUses(node[1].middle)
                      + TotalUses(node[1].right)

\* Trie::new
Init ==
    /\ root = None
    /\ size = 0
    /\ inserted = {}

\* A call of insert; `inserted` records the pairs of the calls that returned
Insert(tokens, value) ==
    LET r == insert(Self, tokens, value) IN
    /\ r.panic # NoPanic \/ (size < MaxKeys /\ value = size + 1)
    /\ root' = r.root
    /\ size' = r.size
    /\ inserted' = IF r.panic = NoPanic THEN inserted \cup {<<tokens, value>>} ELSE inserted

\* A call of search
Search(tokens) ==
    LET r == search(root, tokens) IN
    /\ TotalUses(r.root) <= MaxUses
    /\ root' = r.root
    /\ UNCHANGED <<size, inserted>>

\* A call of longest_match
LongestMatch(tokens) ==
    /\ root' = longest_match(root, tokens).root
    /\ UNCHANGED <<size, inserted>>

Next ==
    \/ \E tokens \in Tokens, value \in Values : Insert(tokens, value)
    \/ \E tokens \in Tokens : Search(tokens)
    \/ \E tokens \in Tokens : LongestMatch(tokens)

Spec == Init /\ [][Next]_vars

(***************************************************************************)
(* What the properties speak of: the keys and values of the insert calls   *)
(* that returned, and the cells of the tree with the byte string of each.  *)
(***************************************************************************)

\* The keys inserted so far, and the value inserted with one of them
InsertedKeys == {kv[1] : kv \in inserted}
ValueOf(k) == CHOOSE v \in Values : <<k, v>> \in inserted

IsPrefix(p, s) == Len(p) <= Len(s) /\ SubSeq(s, 1, Len(p)) = p
IsStrictPrefix(p, s) == Len(p) < Len(s) /\ SubSeq(s, 1, Len(p)) = p

\* The cells under `node`: `path` is the sequence of child links from the
\* root, `str` the bytes consumed by the middle links of the path followed by
\* the key byte of the cell
RECURSIVE Cells(_, _, _)
Cells(node, path, prefix) ==
    IF node = None THEN {}
    ELSE
      LET n == node[1]
          str == Append(prefix, n.key)
      IN  {[path |-> path, str |-> str, key |-> n.key, value |-> n.value, uses |-> n.uses]}
          \cup Cells(n.left, Append(path, "left"), prefix)
          \cup Cells(n.right, Append(path, "right"), prefix)
          \cup Cells(n.middle, Append(path, "middle"), str)

CellsOf(r) == Cells(r, <<>>, <<>>)

\* The cells `cells` with the counter of the cell of byte string `str`
\* incremented and nothing else changed
Counted(cells, str) ==
    {[c EXCEPT !.uses = IF c.str = str THEN @ + 1 ELSE @] : c \in cells}

\* The length of the longest prefix of `tokens` that is an inserted key, or 0
LongestKeyLen(tokens) ==
    LET ns == {n \in 1..Len(tokens) : SubSeq(tokens, 1, n) \in InsertedKeys}
    IN  IF ns = {} THEN 0 ELSE CHOOSE n \in ns : \A m \in ns : m <= n

\* C1: search(k) returns the value inserted with k, for every key k inserted
\* so far, whatever other keys were inserted before or after it.
C1_RoundTrip ==
    \A kv \in inserted : search(root, kv[1]).ret = Some(kv[2])

\* A key and a strict extension of it are both in the trie, with different
\* values, and a search has been counted.
C1_Witness ==
    /\ \E kv1 \in inserted, kv2 \in inserted :
          IsStrictPrefix(kv1[1], kv2[1]) /\ kv1[2] # kv2[2]
    /\ TotalUses(root) > 0

\* C2: search returns absent for every token string, the empty one included,
\* that is not an inserted key.
C2_NegativeLookup ==
    \A tokens \in Tokens :
        tokens \notin InsertedKeys => search(root, tokens).ret = None

\* Of the inserted keys one has a strict prefix that is not inserted, one an
\* extension that is not inserted, and one a string of its length that is
\* not inserted and diverges from it at the last byte.
C2_Witness ==
    /\ \E k \in InsertedKeys, t \in Tokens \ InsertedKeys :
          t # <<>> /\ IsStrictPrefix(t, k)
    /\ \E k \in InsertedKeys, t \in Tokens \ InsertedKeys : IsStrictPrefix(k, t)
    /\ \E k \in InsertedKeys, t \in Tokens \ InsertedKeys :
          Len(t) = Len(k) /\ Len(k) = 2 /\ t[1] = k[1] /\ t # k

\* C3: longest_match(tokens) returns the value and the length of the longest
\* prefix of tokens that is an inserted key, and absent exactly when no
\* prefix of tokens is an inserted key.
C3_LongestMatch ==
    \A tokens \in Tokens :
        LET n == LongestKeyLen(tokens)
            r == longest_match(root, tokens)
        IN  IF n = 0 THEN r.ret = None
            ELSE r.ret = Some(<<ValueOf(SubSeq(tokens, 1, n)), n>>)

\* A key and an extension of it are in the trie: the longest match of the
\* extension is the extension, that of another string that extends the key
\* is the key, and a string no prefix of which is a key has none.
C3_Witness ==
    /\ \E kv1 \in inserted, kv2 \in inserted :
          /\ IsStrictPrefix(kv1[1], kv2[1])
          /\ longest_match(root, kv2[1]).ret = Some(<<kv2[2], Len(kv2[1])>>)
    /\ \E tokens \in Tokens :
          /\ LongestKeyLen(tokens) > 0 /\ LongestKeyLen(tokens) < Len(tokens)
          /\ longest_match(root, tokens).ret # None
    /\ \E tokens \in Tokens :
          /\ tokens # <<>> /\ LongestKeyLen(tokens) = 0
          /\ longest_match(root, tokens).ret = None

\* C4: len() is the number of cells with a value and the number of distinct
\* keys inserted; is_empty() holds exactly when no key was inserted; an
\* insert that returns adds exactly 1 and one that panics adds nothing.
C4_CountInvariant ==
    /\ len(Self) = Cardinality({c \in CellsOf(root) : c.value # None})
    /\ len(Self) = Cardinality(InsertedKeys)
    /\ len(Self) = Cardinality(inserted)
    /\ is_empty(Self) <=> inserted = {}
    /\ \A tokens \in Tokens, value \in Values :
          LET r == insert(Self, tokens, value)
          IN  len(r) = IF r.panic = NoPanic THEN len(Self) + 1 ELSE len(Self)

\* The trie holds MaxKeys keys, a search has been counted, and from here one
\* insert is rejected as a duplicate.
C4_Witness ==
    /\ size = MaxKeys
    /\ TotalUses(root) > 0
    /\ \E kv \in inserted : insert(Self, kv[1], kv[2]).panic = DuplicatePanic

\* C5: insert of a key that already has a value panics for any value and
\* leaves len(), the cells and the stored value as they were.
C5_DuplicateInsert ==
    \A kv \in inserted, value \in Values :
        LET r == insert(Self, kv[1], value)
        IN  /\ r.panic = DuplicatePanic
            /\ r.size = size
            /\ r.root = root
            /\ search(r.root, kv[1]).ret = Some(kv[2])

\* A key is inserted again with another value, in a trie where that key has
\* an extension and its cell has been counted.
C5_Witness ==
    \E kv \in inserted, value \in Values :
        /\ value # kv[2]
        /\ insert(Self, kv[1], value).panic = DuplicatePanic
        /\ \E k \in InsertedKeys : IsStrictPrefix(kv[1], k)
        /\ \E c \in CellsOf(root) : c.str = kv[1] /\ c.uses > 0

\* C6: insert of the empty token string fails its assertion in every state
\* and changes neither len() nor the cells (an absent root stays absent).
C6_EmptyKeyInsert ==
    \A value \in Values :
        LET r == insert(Self, <<>>, value)
        IN  /\ r.panic = AssertPanic
            /\ r.size = size
            /\ r.root = root

\* The empty token string is refused by a trie that holds keys.
C6_Witness ==
    /\ size = MaxKeys
    /\ insert(Self, <<>>, 1).panic = AssertPanic
    /\ insert(Self, <<>>, 1).root # None

\* C7: a search that returns a value adds exactly 1 to the counter of the
\* cell that holds the value of its key, and changes no other cell.
C7_SearchCounts ==
    LET cells == CellsOf(root) IN
    \A tokens \in Tokens :
        LET r == search(root, tokens) IN
        r.ret # None =>
            /\ Cardinality({c \in cells : c.str = tokens /\ c.value = r.ret}) = 1
            /\ Cardinality({c \in cells : c.str = tokens}) = 1
            /\ CellsOf(r.root) = Counted(cells, tokens)

\* A search of a two-byte key has been counted on its cell, the only cell
\* whose counter is not 0.
C7_Witness ==
    \E c \in CellsOf(root) :
        /\ Len(c.str) = 2
        /\ c.value # None
        /\ c.uses = MaxUses
        /\ \A d \in CellsOf(root) : d # c => d.uses = 0

\* C8: a search that returns absent leaves every counter as it was.
C8_AbsentSearchCountsNothing ==
    \A tokens \in Tokens :
        LET r == search(root, tokens) IN
        r.ret = None => CellsOf(r.root) = CellsOf(root)

\* C9: a longest_match that returns a match adds 1, in the trie, to the
\* counter of the cell that produced the match and to no other; one that
\* returns absent changes no counter.
C9_LongestMatchCounts ==
    \A tokens \in Tokens :
        LET r == longest_match(root, tokens) IN
        IF r.ret # None
          THEN CellsOf(r.root) = Counted(CellsOf(root), SubSeq(tokens, 1, r.ret[1][2]))
          ELSE CellsOf(r.root) = CellsOf(root)

\* C10: the byte string of every cell is a prefix of some inserted key.
C10_CellsAreKeyPrefixes ==
    \A c \in CellsOf(root) : \E k \in InsertedKeys : IsPrefix(c.str, k)

====
